---------------------------- MODULE Spec2Model ----------------------------
(***************************************************************************)
(* Model of run_dna (core/src/nucleus/ribosome/run_dna.rs): one call loads *)
(* a wasm module, instantiates it with the Zome API import resolver,       *)
(* writes the call parameters into the guest page, invokes the exported    *)
(* zome function with the encoded allocation, decodes the returned word    *)
(* and logs the result.                                                    *)
(*                                                                         *)
(* Every per-call variable is a function over the ids of the calls in      *)
(* progress, so that several calls can be interleaved; the log of the      *)
(* shared Context is the only variable the calls have in common.           *)
(***************************************************************************)
EXTENDS Integers, Sequences, FiniteSets, TLC

(***************************************************************************)
(* Bounds.  The guest page is PageSize bytes (65536 in wasm); each half of *)
(* an encoded word ranges over 0 .. FieldMod-1 (2^32 in the code), scaled  *)
(* so that descriptors beyond the page are representable.                  *)
(***************************************************************************)
PageSize == 3

MaxInputLen == 2

FieldMod == 2 * PageSize

Words == 0 .. (FieldMod * FieldMod - 1)

\* Byte values: NUL (ASCII), 0xC3 (lead byte of a two-byte sequence) and
\* 0xA9 (a continuation byte).  C3 A9 is U+00E9; C3 or A9 alone is invalid.
Bytes == {0, 169, 195}

InputBytes == {0, 195}

RECURSIVE SeqsUpTo(_, _)
SeqsUpTo(S, n) ==
    IF n = 0 THEN {<<>>}
    ELSE LET shorter == SeqsUpTo(S, n - 1)
         IN  shorter \cup {Append(s, b) : s \in {t \in shorter : Len(t) = n - 1}, b \in S}

\* An input one byte longer than the page: the write cannot place it.
OversizeInput == [i \in 1 .. (PageSize + 1) |-> 0]

\* Option<Vec<u8>>: None, or Some(bytes).
None == [some |-> FALSE, bytes |-> <<>>]

Some(b) == [some |-> TRUE, bytes |-> b]

Parameters ==
    {None} \cup {Some(b) : b \in SeqsUpTo(InputBytes, MaxInputLen) \cup {OversizeInput}}

FnNames == {"zome_fn_a", "zome_fn_b"}

(***************************************************************************)
(* Strings.  A String is a literal prefix followed by computed bytes, so   *)
(* that messages, decimal renderings and guest text have one shape.        *)
(***************************************************************************)
Str(lit, bytes) == [lit |-> lit, bytes |-> bytes]

\* ASCII decimal rendering of a natural number (to_string of an integer).
RECURSIVE DecimalDigits(_)
DecimalDigits(n) ==
    IF n < 10 THEN <<48 + n>>
    ELSE Append(DecimalDigits(n \div 10), 48 + (n % 10))

\* Result<T, E>
Ok(v) == [tag |-> "Ok", value |-> v]

Err(e) == [tag |-> "Err", value |-> e]


\* HolochainError variants built by run_dna.
ErrorGeneric(msg) == [kind |-> "ErrorGeneric", msg |-> msg]

RibosomeFailed(msg) == [kind |-> "RibosomeFailed", msg |-> msg]

\* JsonString::null() and JsonString::from(String).
JsonNull == [json |-> Str("null", <<>>)]

JsonFromString(s) == [json |-> s]

(***************************************************************************)
(* RibosomeEncodedValue and its conversion to and from RibosomeEncodingBits*)
(* (holochain_core_types::error).  The high half of the word is the offset *)
(* or the error code, the low half the length: 0 is Success, a word with a *)
(* zero low half is Failure(high), anything else is an allocation.         *)
(***************************************************************************)
Success == [tag |-> "Success", code |-> 0, offset |-> 0, length |-> 0]

Failure(code) == [tag |-> "Failure", code |-> code, offset |-> 0, length |-> 0]

Allocation(offset, length) ==
    [tag |-> "Allocation", code |-> 0, offset |-> offset, length |-> length]

\* The encoding with the error code in the low half of the word.
EncodeValueCodeInLowHalf(v) ==
    CASE v.tag = "Success" -> 0
      [] v.tag = "Failure" -> v.code
      [] OTHER -> v.offset * FieldMod + v.length

\* impl From<RibosomeEncodedValue> for RibosomeEncodingBits
EncodeValue(v) ==
    CASE v.tag = "Success" -> 0
      [] v.tag = "Failure" -> v.code * FieldMod
      [] OTHER -> v.offset * FieldMod + v.length

\* impl From<RibosomeEncodingBits> for RibosomeEncodedValue
DecodeWord(w) ==
    IF w = 0 THEN Success
    ELSE IF w % FieldMod = 0 THEN Failure(w \div FieldMod)
    ELSE Allocation(w \div FieldMod, w % FieldMod)

\* Display for RibosomeEncodedValue, as used for the log summary.
ValueToString(v) ==
    CASE v.tag = "Success" -> Str("Success", <<>>)
      [] v.tag = "Failure" -> Str("Failure ", DecimalDigits(v.code))
      [] OTHER -> Str("Allocation", <<>>)

\* WasmAllocation::try_from(RibosomeEncodedAllocation): the descriptor must
\* lie inside the page.
WasmAllocationTryFrom(a) ==
    IF a.offset + a.length > PageSize
    THEN Err("OutOfBounds")
    ELSE Ok([offset |-> a.offset, length |-> a.length])

\* String::from(AllocationError)
AllocationErrorString(e) == Str(e, <<>>)

(***************************************************************************)
(* SinglePageManager: a bump allocator over the guest page.  mem is the    *)
(* page (0 .. PageSize-1 -> byte), top the next free offset.               *)
(***************************************************************************)
FreshPage == [i \in 0 .. (PageSize - 1) |-> 0]

Pages == [0 .. (PageSize - 1) -> Bytes]

\* write that places the bytes but does not advance the bump offset.
MemWriteWithoutBump(mem, top, data) ==
    IF Len(data) = 0
    THEN [res |-> Err("ZeroLength"), mem |-> mem, top |-> top]
    ELSE IF top + Len(data) > PageSize
    THEN [res |-> Err("OutOfBounds"), mem |-> mem, top |-> top]
    ELSE [res |-> Ok([offset |-> top, length |-> Len(data)]),
          mem |-> [i \in 0 .. (PageSize - 1) |->
                     IF i >= top /\ i < top + Len(data)
                     THEN data[i - top + 1] ELSE mem[i]],
          top |-> top]

\* SinglePageManager::write: the result and the manager afterwards.
MemWrite(mem, top, data) ==
    IF Len(data) = 0
    THEN [res |-> Err("ZeroLength"), mem |-> mem, top |-> top]
    ELSE IF top + Len(data) > PageSize
    THEN [res |-> Err("OutOfBounds"), mem |-> mem, top |-> top]
    ELSE [res |-> Ok([offset |-> top, length |-> Len(data)]),
          mem |-> [i \in 0 .. (PageSize - 1) |->
                     IF i >= top /\ i < top + Len(data)
                     THEN data[i - top + 1] ELSE mem[i]],
          top |-> top + Len(data)]

\* SinglePageManager::read
MemRead(mem, a) == [i \in 1 .. a.length |-> mem[a.offset + i - 1]]

(***************************************************************************)
(* String::from_utf8.  Utf8ValidUpTo is the index of the first byte that   *)
(* is not part of a well-formed sequence (Len(b) when all of b is valid);  *)
(* one- and two-byte sequences are decoded, every other lead is invalid.   *)
(***************************************************************************)
IsAscii(x) == x >= 0 /\ x <= 127

IsLead2(x) == x >= 194 /\ x <= 223

IsCont(x) == x >= 128 /\ x <= 191

RECURSIVE Utf8Scan(_, _)
Utf8Scan(b, i) ==
    IF i > Len(b) THEN Len(b)
    ELSE IF IsAscii(b[i]) THEN Utf8Scan(b, i + 1)
    ELSE IF IsLead2(b[i]) /\ i + 1 <= Len(b) /\ IsCont(b[i + 1]) THEN Utf8Scan(b, i + 2)
    ELSE i - 1

Utf8ValidUpTo(b) == Utf8Scan(b, 1)

StringFromUtf8(b) ==
    IF Utf8ValidUpTo(b) = Len(b)
    THEN Ok(Str("", b))
    ELSE Err(Str("invalid utf-8 sequence from index ", DecimalDigits(Utf8ValidUpTo(b))))

(***************************************************************************)
(* The wasm binary, described by what run_dna observes of it: whether it   *)
(* parses, the imports it declares, its start function and the export      *)
(* named by the zome call.                                                 *)
(***************************************************************************)
SigStandard == "i64_to_i64"

SigAbort == "i64x4_to_none"

SigOther == "i32_to_i32"

Import(name, sig) == [name |-> name, sig |-> sig]

ImportSets ==
    { {},
      {Import("hc_debug", SigStandard)},
      {Import("abort", SigAbort)},
      {Import("hc_debug", SigOther)},
      {Import("hc_unknown", SigStandard)},
      {Import("hc_debug", SigStandard), Import("hc_unknown", SigStandard)} }

StartKinds == {"none", "returns", "traps"}

\* The export named fn_name: absent, taking other parameters than one i64,
\* trapping, returning nothing, returning an i32, or returning an i64.
ExportKinds == {"missing", "wrong_params", "traps", "no_result", "result_i32", "result_i64"}

InvalidWasm == [valid |-> FALSE, imports |-> {}, start |-> "none", export |-> "missing"]

Wasms ==
    {InvalidWasm} \cup
    [valid : {TRUE}, imports : ImportSets, start : StartKinds, export : ExportKinds]

\* ZomeApiFunction::from_str: the index of a known Zome API function.
ZomeApiFunctionFromStr(name) ==
    CASE name = "abort" -> Ok(1)
      [] name = "hc_debug" -> Ok(2)
      [] name = "hc_commit_entry" -> Ok(3)
      [] OTHER -> Err("unknown")

\* RuntimeModuleImportResolver::resolve_func
ResolveFunc(field_name) ==
    LET api_fn == ZomeApiFunctionFromStr(field_name)
    IN  IF api_fn.tag = "Err"
        THEN Err(Str("host module doesn't export function with name ", <<>>))
        ELSE IF field_name = "abort"
        THEN Ok([sig |-> SigAbort, index |-> api_fn.value])
        ELSE Ok([sig |-> SigStandard, index |-> api_fn.value])

\* ModuleInstance::new(&module, &imports): every import is resolved by
\* resolve_func and the resolved signature must be the declared one.
ImportResolves(imp) ==
    LET r == ResolveFunc(imp.name)
    IN  r.tag = "Ok" /\ r.value.sig = imp.sig

ModuleInstanceNew(w) ==
    IF \A imp \in w.imports : ImportResolves(imp) THEN "Ok" ELSE "Err"

\* from_buffer whose error is dropped instead of returned.
LoadModuleUnchecked(w) == Ok(w)

\* wasmi::Module::from_buffer(wasm).map_err(ErrorGeneric)
LoadModule(w) ==
    IF w.valid THEN Ok(w)
    ELSE Err(ErrorGeneric(Str("wasm module could not be parsed", <<>>)))

\* run_start(&mut NopExternals).map_err(|_| RibosomeFailed("Module failed to start"))
RunStart(w) ==
    IF w.start = "traps"
    THEN Err(RibosomeFailed(Str("Module failed to start", <<>>)))
    ELSE Ok(w)

\* parameters.unwrap_or_default()
UnwrapOrDefault(p) == IF p.some THEN p.bytes ELSE <<>>

\* The match without its ZeroLength arm: every write error fails the call.
EncodeAllocationOfInputStrict(maybe_allocation) ==
    IF maybe_allocation.tag = "Err"
    THEN Err(RibosomeFailed(AllocationErrorString(maybe_allocation.value)))
    ELSE Ok(EncodeValue(Allocation(maybe_allocation.value.offset,
                                   maybe_allocation.value.length)))

\* The match with every write error taken as "no allocation to write".
EncodeAllocationOfInputLenient(maybe_allocation) ==
    IF maybe_allocation.tag = "Err"
    THEN Ok(EncodeValue(Success))
    ELSE Ok(EncodeValue(Allocation(maybe_allocation.value.offset,
                                   maybe_allocation.value.length)))

\* The match encoding the descriptor with offset and length exchanged.
EncodeAllocationOfInputSwapped(maybe_allocation) ==
    IF maybe_allocation.tag = "Err"
    THEN IF maybe_allocation.value = "ZeroLength"
         THEN Ok(EncodeValue(Success))
         ELSE Err(RibosomeFailed(AllocationErrorString(maybe_allocation.value)))
    ELSE Ok(EncodeValue(Allocation(maybe_allocation.value.length,
                                   maybe_allocation.value.offset)))

\* The match on the result of memory_manager.write: the argument word, or
\* the error the call returns.
EncodeAllocationOfInput(maybe_allocation) ==
    IF maybe_allocation.tag = "Err"
    THEN IF maybe_allocation.value = "ZeroLength"
         THEN Ok(EncodeValue(Success))
         ELSE Err(RibosomeFailed(AllocationErrorString(maybe_allocation.value)))
    ELSE Ok(EncodeValue(Allocation(maybe_allocation.value.offset,
                                   maybe_allocation.value.length)))

\* invoke_export(..).map_err(RibosomeFailed)?.unwrap().try_into().unwrap():
\* "error" when invoke_export fails, "panic" when there is no i64 to unwrap.
InvokeOutcome(export) ==
    CASE export \in {"missing", "wrong_params", "traps"} -> "error"
      [] export \in {"no_result", "result_i32"} -> "panic"
      [] OTHER -> "value"

InvokeErrorString(export) ==
    CASE export = "missing" -> Str("Function: Module doesn't have export", <<>>)
      [] export = "wrong_params" -> Str("Trap: UnexpectedSignature", <<>>)
      [] OTHER -> Str("Trap: Unreachable", <<>>)

\* The Success arm returning an empty string instead of JSON null.
HandleSuccessEmptyString(return_code) ==
    [log_msg |-> ValueToString(return_code),
     result |-> Ok(JsonFromString(Str("", <<>>))), read |-> <<>>]

\* The Success arm of the match on the return code.
HandleSuccess(return_code) ==
    [log_msg |-> ValueToString(return_code), result |-> Ok(JsonNull), read |-> <<>>]

\* The Failure arm reporting the display text of the return code instead of
\* the error code.
HandleFailureWithoutCode(return_code) ==
    [log_msg |-> ValueToString(return_code),
     result |-> Err(RibosomeFailed(Str("Failure", <<>>))),
     read |-> <<>>]

\* The Failure(err_code) arm.
HandleFailure(return_code) ==
    [log_msg |-> ValueToString(return_code),
     result |-> Err(RibosomeFailed(Str("", DecimalDigits(return_code.code)))),
     read |-> <<>>]

\* The Ok(json_string) arm logging the text but returning JSON null.
HandleTextAsNull(json_string, allocation) ==
    [log_msg |-> json_string, result |-> Ok(JsonNull), read |-> <<allocation>>]

\* The Ok(json_string) arm of String::from_utf8(result).
HandleText(json_string, allocation) ==
    [log_msg |-> json_string, result |-> Ok(JsonFromString(json_string)),
     read |-> <<allocation>>]

\* The Err(err) arm returning the error text as if it were the result.
HandleTextErrorAsValue(err, allocation) ==
    [log_msg |-> err, result |-> Ok(JsonFromString(err)), read |-> <<allocation>>]

\* The Err(err) arm of String::from_utf8(result).
HandleTextError(err, allocation) ==
    [log_msg |-> err, result |-> Err(RibosomeFailed(err)), read |-> <<allocation>>]

\* The Err(allocation_error) arm logging the error but returning JSON null.
HandleAllocationErrorAsNull(allocation_error) ==
    [log_msg |-> AllocationErrorString(allocation_error),
     result |-> Ok(JsonNull), read |-> <<>>]

\* The Err(allocation_error) arm of WasmAllocation::try_from.
HandleAllocationError(allocation_error) ==
    [log_msg |-> AllocationErrorString(allocation_error),
     result |-> Err(RibosomeFailed(AllocationErrorString(allocation_error))),
     read |-> <<>>]

\* The Allocation(ribosome_allocation) arm.
HandleAllocation(ribosome_allocation, mem) ==
    LET a == WasmAllocationTryFrom(ribosome_allocation)
    IN  IF a.tag = "Ok"
        THEN LET s == StringFromUtf8(MemRead(mem, a.value))
             IN  IF s.tag = "Ok"
                 THEN HandleText(s.value, a.value)
                 ELSE HandleTextError(s.value, a.value)
        ELSE HandleAllocationError(a.value)

\* "Handle result returned by called zome function": the log summary, the
\* result of the call and the descriptors read through the memory manager,
\* from the returned word and the guest page.
HandleReturn(returned_word, mem) ==
    LET return_code == DecodeWord(returned_word)
    IN  CASE return_code.tag = "Success" -> HandleSuccess(return_code)
          [] return_code.tag = "Failure" -> HandleFailure(return_code)
          [] OTHER -> HandleAllocation(return_code, mem)

\* The log line naming the dna instead of the zome function.
LogLineOfDna(c, name, msg) == [call |-> c, fn |-> "dna_name", returned |-> msg]

\* format!("debug/zome: Zome Function '{}' returned: {}", fn_name, msg)
LogLine(c, name, msg) == [call |-> c, fn |-> name, returned |-> msg]

(***************************************************************************)
(* State.                                                                  *)
(***************************************************************************)
VARIABLES
    pc,                           \* where each call is in run_dna
    wasm,                         \* wasm: Vec<u8>, as described above
    fn_name,                      \* zome_call.fn_name
    parameters,                   \* parameters: Option<Vec<u8>>
    memory,                       \* the guest page of the call's module instance
    top,                          \* runtime.memory_manager: the bump offset
    encoded_allocation_of_input,  \* the argument word
    returned_encoding,            \* the word the export returned
    return_log_msg,               \* the summary for the log line
    return_result,                \* the ZomeFnResult; returned when pc = "done"
    reads,                        \* descriptors read through memory_manager.read
    steps,                        \* the steps the call has executed, in order
    log,                          \* the lines received by context.log
    codec,                        \* an encoded value on its way through encode and decode
    allocations                   \* the successful writes of a memory manager under test

vars ==
    <<pc, wasm, fn_name, parameters, memory, top, encoded_allocation_of_input,
      returned_encoding, return_log_msg, return_result, reads, steps, log,
      codec, allocations>>

CallIds == {1}

NoString == Str("", <<>>)

NoResult == [tag |-> "Pending", value |-> JsonNull]

\* The variables used only to exercise the encoding and the memory manager.
harness == <<codec, allocations>>

NoCodec == [stage |-> "none", value |-> Success, word |-> 0, decoded |-> Success]

\* The calls `ids` at the entry of run_dna, with their arguments drawn from
\* the given sets.
InitWith(ids, wasms, names, params) ==
    /\ pc = [c \in ids |-> "load"]
    /\ wasm \in [ids -> wasms]
    /\ fn_name \in [ids -> names]
    /\ parameters \in [ids -> params]
    /\ memory = [c \in ids |-> FreshPage]
    /\ top = [c \in ids |-> 0]
    /\ encoded_allocation_of_input = [c \in ids |-> 0]
    /\ returned_encoding = [c \in ids |-> 0]
    /\ return_log_msg = [c \in ids |-> NoString]
    /\ return_result = [c \in ids |-> NoResult]
    /\ reads = [c \in ids |-> <<>>]
    /\ steps = [c \in ids |-> <<>>]
    /\ log = <<>>
    /\ codec = NoCodec
    /\ allocations = <<>>

InitCalls(ids) == InitWith(ids, Wasms, FnNames, Parameters)

Init == InitCalls(CallIds)

\* The call ends: `return r`.
Return(c, r) ==
    /\ pc' = [pc EXCEPT ![c] = "done"]
    /\ return_result' = [return_result EXCEPT ![c] = r]

Step(c, name) ==
    /\ steps' = [steps EXCEPT ![c] = Append(@, name)]
    /\ UNCHANGED harness

\* Create wasm module from wasm binary.
Load(c) ==
    /\ pc[c] = "load"
    /\ Step(c, "Load")
    /\ LET module == LoadModule(wasm[c])
       IN  IF module.tag = "Err"
           THEN Return(c, Err(module.value))
           ELSE /\ pc' = [pc EXCEPT ![c] = "bind"]
                /\ UNCHANGED return_result
    /\ UNCHANGED <<wasm, fn_name, parameters, memory, top, encoded_allocation_of_input,
                   returned_encoding, return_log_msg, reads, log>>

\* Create Imports with the resolver, under "env".
BindImports(c) ==
    /\ pc[c] = "bind"
    /\ Step(c, "BindImports")
    /\ pc' = [pc EXCEPT ![c] = "instantiate"]
    /\ UNCHANGED <<wasm, fn_name, parameters, memory, top, encoded_allocation_of_input,
                   returned_encoding, return_log_msg, return_result, reads, log>>

\* Create module instance from wasm module, and start it if start is defined;
\* then build the Runtime with a SinglePageManager on the instance's page.
Instantiate(c) ==
    /\ pc[c] = "instantiate"
    /\ Step(c, "Instantiate")
    /\ IF ModuleInstanceNew(wasm[c]) = "Err"
       THEN \* .expect("Failed to instantiate module")
            /\ pc' = [pc EXCEPT ![c] = "panicked"]
            /\ UNCHANGED return_result
       ELSE LET started == RunStart(wasm[c])
            IN  IF started.tag = "Err"
                THEN Return(c, Err(started.value))
                ELSE /\ pc' = [pc EXCEPT ![c] = "stage"]
                     /\ UNCHANGED return_result
    /\ UNCHANGED <<wasm, fn_name, parameters, memory, top, encoded_allocation_of_input,
                   returned_encoding, return_log_msg, reads, log>>

\* StageInput on a page and a memory manager that all calls share.
StageInputSharedPage(c) ==
    /\ pc[c] = "stage"
    /\ Step(c, "StageInput")
    /\ LET input_parameters == UnwrapOrDefault(parameters[c])
           written == MemWrite(memory[c], top[c], input_parameters)
           encoded == EncodeAllocationOfInput(written.res)
       IN  /\ memory' = [d \in DOMAIN memory |-> written.mem]
           /\ top' = [d \in DOMAIN top |-> written.top]
           /\ IF encoded.tag = "Err"
              THEN /\ Return(c, Err(encoded.value))
                   /\ UNCHANGED encoded_allocation_of_input
              ELSE /\ encoded_allocation_of_input' =
                          [encoded_allocation_of_input EXCEPT ![c] = encoded.value]
                   /\ pc' = [pc EXCEPT ![c] = "invoke"]
                   /\ UNCHANGED return_result
    /\ UNCHANGED <<wasm, fn_name, parameters, returned_encoding, return_log_msg,
                   reads, log>>

\* Write input arguments in wasm memory.
StageInput(c) ==
    /\ pc[c] = "stage"
    /\ Step(c, "StageInput")
    /\ LET input_parameters == UnwrapOrDefault(parameters[c])
           written == MemWrite(memory[c], top[c], input_parameters)
           encoded == EncodeAllocationOfInput(written.res)
       IN  /\ memory' = [memory EXCEPT ![c] = written.mem]
           /\ top' = [top EXCEPT ![c] = written.top]
           /\ IF encoded.tag = "Err"
              THEN /\ Return(c, Err(encoded.value))
                   /\ UNCHANGED encoded_allocation_of_input
              ELSE /\ encoded_allocation_of_input' =
                          [encoded_allocation_of_input EXCEPT ![c] = encoded.value]
                   /\ pc' = [pc EXCEPT ![c] = "invoke"]
                   /\ UNCHANGED return_result
    /\ UNCHANGED <<wasm, fn_name, parameters, returned_encoding, return_log_msg,
                   reads, log>>

\* Invoke function in wasm instance.  The guest is a black box: an export
\* that returns an i64 may return any of `words` and leave any of `pages` in
\* its page.
InvokeWith(c, pages, words) ==
    /\ pc[c] = "invoke"
    /\ Step(c, "Invoke")
    /\ LET outcome == InvokeOutcome(wasm[c].export)
       IN  CASE outcome = "error" ->
                  /\ Return(c, Err(RibosomeFailed(InvokeErrorString(wasm[c].export))))
                  /\ UNCHANGED <<memory, returned_encoding>>
             [] outcome = "panic" ->
                  /\ pc' = [pc EXCEPT ![c] = "panicked"]
                  /\ UNCHANGED <<memory, returned_encoding, return_result>>
             [] OTHER ->
                  /\ \E page \in pages : memory' = [memory EXCEPT ![c] = page]
                  /\ \E word \in words :
                        returned_encoding' = [returned_encoding EXCEPT ![c] = word]
                  /\ pc' = [pc EXCEPT ![c] = "decode"]
                  /\ UNCHANGED return_result
    /\ UNCHANGED <<wasm, fn_name, parameters, top, encoded_allocation_of_input,
                   return_log_msg, reads, log>>

Invoke(c) == InvokeWith(c, Pages, Words)

\* Handle result returned by called zome function.
DecodeResult(c) ==
    /\ pc[c] = "decode"
    /\ Step(c, "DecodeResult")
    /\ LET handled == HandleReturn(returned_encoding[c], memory[c])
       IN  /\ return_log_msg' = [return_log_msg EXCEPT ![c] = handled.log_msg]
           /\ return_result' = [return_result EXCEPT ![c] = handled.result]
           /\ reads' = [reads EXCEPT ![c] = @ \o handled.read]
    /\ pc' = [pc EXCEPT ![c] = "report"]
    /\ UNCHANGED <<wasm, fn_name, parameters, memory, top, encoded_allocation_of_input,
                   returned_encoding, log>>

\* Report without the call to context.log.
ReportWithoutLog(c) ==
    /\ pc[c] = "report"
    /\ Step(c, "Report")
    /\ pc' = [pc EXCEPT ![c] = "done"]
    /\ UNCHANGED <<wasm, fn_name, parameters, memory, top, encoded_allocation_of_input,
                   returned_encoding, return_log_msg, return_result, reads, log>>

\* Log & done.
Report(c) ==
    /\ pc[c] = "report"
    /\ Step(c, "Report")
    /\ log' = Append(log, LogLine(c, fn_name[c], return_log_msg[c]))
    /\ pc' = [pc EXCEPT ![c] = "done"]
    /\ UNCHANGED <<wasm, fn_name, parameters, memory, top, encoded_allocation_of_input,
                   returned_encoding, return_log_msg, return_result, reads>>

Next ==
    \/ \E c \in DOMAIN pc : Load(c)
    \/ \E c \in DOMAIN pc : BindImports(c)
    \/ \E c \in DOMAIN pc : Instantiate(c)
    \/ \E c \in DOMAIN pc : StageInput(c)
    \/ \E c \in DOMAIN pc : Invoke(c)
    \/ \E c \in DOMAIN pc : DecodeResult(c)
    \/ \E c \in DOMAIN pc : Report(c)

Spec == Init /\ [][Next]_vars

(***************************************************************************)
(* Concurrent calls ("Multithreaded function"): two calls of run_dna are   *)
(* interleaved step by step.  The modules, inputs and guest behaviours are *)
(* narrowed: a guest returns its argument word, a Failure word or the      *)
(* descriptor (0, 2), and leaves its page as it is or writes C3 A9 at 0.   *)
(***************************************************************************)
ConcCallIds == {1, 2}

PlainWasm(start, export) ==
    [valid |-> TRUE, imports |-> {}, start |-> start, export |-> export]

ConcWasms ==
    { InvalidWasm,
      PlainWasm("none", "result_i64"),
      PlainWasm("traps", "result_i64"),
      PlainWasm("none", "traps"),
      [valid |-> TRUE, imports |-> {Import("hc_unknown", SigStandard)},
       start |-> "none", export |-> "result_i64"] }

ConcParameters == {None, Some(<<0>>), Some(<<195, 169>>)}

TextPage == [i \in 0 .. (PageSize - 1) |-> IF i = 0 THEN 195 ELSE IF i = 1 THEN 169 ELSE 0]

GuestPages(c) == {memory[c], TextPage}

GuestWords(c) ==
    {encoded_allocation_of_input[c], EncodeValue(Failure(1)), EncodeValue(Allocation(0, 2))}

InvokeConc(c) == InvokeWith(c, GuestPages(c), GuestWords(c))

InitConc == InitWith(ConcCallIds, ConcWasms, FnNames, ConcParameters)

NextConc ==
    \/ \E c \in DOMAIN pc : Load(c)
    \/ \E c \in DOMAIN pc : BindImports(c)
    \/ \E c \in DOMAIN pc : Instantiate(c)
    \/ \E c \in DOMAIN pc : StageInput(c)
    \/ \E c \in DOMAIN pc : InvokeConc(c)
    \/ \E c \in DOMAIN pc : DecodeResult(c)
    \/ \E c \in DOMAIN pc : Report(c)

SpecConc == InitConc /\ [][NextConc]_vars

(***************************************************************************)
(* The encoding on its own: a value is encoded to a word and the word is   *)
(* decoded again.  No call is in progress.                                 *)
(***************************************************************************)
\* The values that have an encoding: Success, Failure with a non-zero code,
\* and the descriptors of non-empty allocations (an empty write allocates
\* nothing and is passed as Success).
EncodedValues ==
    {Success}
    \cup {Failure(code) : code \in 1 .. (FieldMod - 1)}
    \cup {Allocation(offset, length) :
            offset \in 0 .. (FieldMod - 1), length \in 1 .. (FieldMod - 1)}

NoCalls ==
    /\ pc = <<>>
    /\ wasm = <<>>
    /\ fn_name = <<>>
    /\ parameters = <<>>
    /\ memory = <<>>
    /\ top = <<>>
    /\ encoded_allocation_of_input = <<>>
    /\ returned_encoding = <<>>
    /\ return_log_msg = <<>>
    /\ return_result = <<>>
    /\ reads = <<>>
    /\ steps = <<>>
    /\ log = <<>>

calls ==
    <<pc, wasm, fn_name, parameters, memory, top, encoded_allocation_of_input,
      returned_encoding, return_log_msg, return_result, reads, steps, log>>

InitCodec ==
    /\ NoCalls
    /\ allocations = <<>>
    /\ \E v \in EncodedValues :
          codec = [stage |-> "value", value |-> v, word |-> 0, decoded |-> Success]

\* RibosomeEncodedValue -> RibosomeEncodingBits (.into())
Encode ==
    /\ codec.stage = "value"
    /\ codec' = [codec EXCEPT !.stage = "word", !.word = EncodeValue(codec.value)]
    /\ UNCHANGED <<calls, allocations>>

\* RibosomeEncodedValue::from(RibosomeEncodingBits)
Decode ==
    /\ codec.stage = "word"
    /\ codec' = [codec EXCEPT !.stage = "decoded", !.decoded = DecodeWord(codec.word)]
    /\ UNCHANGED <<calls, allocations>>

NextCodec == Encode \/ Decode

SpecCodec == InitCodec /\ [][NextCodec]_vars

(***************************************************************************)
(* The memory manager on its own: any sequence of writes on a fresh page.  *)
(* allocations records each successful write: its descriptor and bytes.    *)
(***************************************************************************)
MemCallIds == {1}

InitMem ==
    /\ pc = [c \in MemCallIds |-> "write"]
    /\ wasm = [c \in MemCallIds |-> PlainWasm("none", "result_i64")]
    /\ fn_name \in [MemCallIds -> FnNames]
    /\ parameters = [c \in MemCallIds |-> None]
    /\ memory = [c \in MemCallIds |-> FreshPage]
    /\ top = [c \in MemCallIds |-> 0]
    /\ encoded_allocation_of_input = [c \in MemCallIds |-> 0]
    /\ returned_encoding = [c \in MemCallIds |-> 0]
    /\ return_log_msg = [c \in MemCallIds |-> NoString]
    /\ return_result = [c \in MemCallIds |-> NoResult]
    /\ reads = [c \in MemCallIds |-> <<>>]
    /\ steps = [c \in MemCallIds |-> <<>>]
    /\ log = <<>>
    /\ codec = NoCodec
    /\ allocations = <<>>

\* memory_manager.write(data), for any data up to one byte more than the page.
WriteBytes(c) ==
    /\ pc[c] = "write"
    /\ \E data \in SeqsUpTo(Bytes, PageSize + 1) :
          LET written == MemWrite(memory[c], top[c], data)
          IN  /\ memory' = [memory EXCEPT ![c] = written.mem]
              /\ top' = [top EXCEPT ![c] = written.top]
              /\ allocations' =
                    IF written.res.tag = "Ok"
                    THEN Append(allocations,
                                [allocation |-> written.res.value, data |-> data])
                    ELSE allocations
    /\ UNCHANGED <<pc, wasm, fn_name, parameters, encoded_allocation_of_input,
                   returned_encoding, return_log_msg, return_result, reads, steps,
                   log, codec>>

NextMem == \E c \in DOMAIN pc : WriteBytes(c)

SpecMem == InitMem /\ [][NextMem]_vars

\* run_dna run alone, from entry to exit, on module w and parameters p, with
\* a guest that returns `word` and leaves `page`: how the call ends, its
\* result and the summaries it logs.
RunAlone(w, p, word, page) ==
    LET module == LoadModule(w)
        started == RunStart(w)
        written == MemWrite(FreshPage, 0, UnwrapOrDefault(p))
        encoded == EncodeAllocationOfInput(written.res)
        handled == HandleReturn(word, page)
    IN  IF module.tag = "Err"
        THEN [end |-> "done", result |-> Err(module.value), logged |-> <<>>]
        ELSE IF ModuleInstanceNew(w) = "Err"
        THEN [end |-> "panicked", result |-> NoResult, logged |-> <<>>]
        ELSE IF started.tag = "Err"
        THEN [end |-> "done", result |-> Err(started.value), logged |-> <<>>]
        ELSE IF encoded.tag = "Err"
        THEN [end |-> "done", result |-> Err(encoded.value), logged |-> <<>>]
        ELSE IF InvokeOutcome(w.export) = "error"
        THEN [end |-> "done",
              result |-> Err(RibosomeFailed(InvokeErrorString(w.export))),
              logged |-> <<>>]
        ELSE IF InvokeOutcome(w.export) = "panic"
        THEN [end |-> "panicked", result |-> NoResult, logged |-> <<>>]
        ELSE [end |-> "done", result |-> handled.result, logged |-> <<handled.log_msg>>]


(***************************************************************************)
(* Properties.                                                             *)
(***************************************************************************)
Calls == DOMAIN pc

\* The call has executed the named step.
Did(c, name) == \E i \in 1 .. Len(steps[c]) : steps[c][i] = name

\* The call has returned to its caller / has unwound with a panic.
Returned(c) == pc[c] = "done"

Panicked(c) == pc[c] = "panicked"

\* The number of log lines the call has emitted.
LinesOf(c) == Cardinality({i \in 1 .. Len(log) : log[i].call = c})

\* The last step the call executed.
LastStep(c) == steps[c][Len(steps[c])]

HasUnknownImport(w) ==
    \E imp \in w.imports : ZomeApiFunctionFromStr(imp.name).tag = "Err"

C2_UnknownImportRecoverable ==
    \A c \in Calls :
        (wasm[c].valid /\ HasUnknownImport(wasm[c]) /\ Did(c, "Instantiate")) =>
            /\ Returned(c)
            /\ return_result[c].tag = "Err"
            /\ ~Panicked(c)
            /\ ~Did(c, "Invoke")

\* C3, as stated: the Invoke step never aborts; a missing export, an export of
\* another arity or type (one returning no value or no i64 included) or a trap
\* ends the call with a RibosomeFailed error returned to the caller.
C3_InvokeNeverAborts ==
    \A c \in Calls :
        (Did(c, "Invoke") /\ wasm[c].export # "result_i64") =>
            /\ ~Panicked(c)
            /\ Returned(c)
            /\ return_result[c].tag = "Err"
            /\ return_result[c].value.kind = "RibosomeFailed"

InputBytesOf(c) == IF parameters[c].some THEN parameters[c].bytes ELSE <<>>

\* The call returned from the input staging step.
FailedAtStaging(c) == Returned(c) /\ LastStep(c) = "StageInput"

\* C5: with absent or empty input the call does not fail at input staging,
\* nothing is allocated and the argument word is the encoding of Success; with
\* a non-empty input that fits the fresh page the argument word is the encoding
\* of the descriptor (0, length), and when the export is invoked the page holds
\* the input at that descriptor.
C5_InputStaging ==
    \A c \in Calls :
        Did(c, "StageInput") =>
            LET input == InputBytesOf(c)
            IN  /\ Len(input) = 0 =>
                      /\ ~FailedAtStaging(c)
                      /\ top[c] = 0
                      /\ encoded_allocation_of_input[c] = EncodeValue(Success)
                /\ (Len(input) >= 1 /\ Len(input) <= PageSize) =>
                      /\ ~FailedAtStaging(c)
                      /\ top[c] = Len(input)
                      /\ encoded_allocation_of_input[c] =
                             EncodeValue(Allocation(0, Len(input)))
                      /\ pc[c] = "invoke" =>
                             \A i \in 1 .. Len(input) : memory[c][i - 1] = input[i]

\* C5 witness: the export was invoked for a call without input, with the
\* Success word as its argument.
C5_Witness ==
    \E c \in Calls :
        /\ ~parameters[c].some
        /\ Did(c, "Invoke")
        /\ wasm[c].export = "result_i64"
        /\ encoded_allocation_of_input[c] = EncodeValue(Success)

\* The return code of a call whose returned word has been decoded.
ReturnCode(c) == DecodeWord(returned_encoding[c])

Decoded(c) == Did(c, "DecodeResult")

\* The bytes of the guest page at a descriptor inside the page.
BytesAt(c, offset, length) == [i \in 1 .. length |-> memory[c][offset + i - 1]]

InPage(code) == code.offset + code.length <= PageSize

\* C6: a returned word that decodes to Failure(code) makes the result the
\* error that carries the decimal text of exactly that code, for every code,
\* and no guest memory is read.
C6_FailureCarriesCode ==
    \A c \in Calls :
        \A code \in 1 .. (FieldMod - 1) :
            (Decoded(c) /\ ReturnCode(c) = Failure(code)) =>
                /\ return_result[c] = Err(RibosomeFailed(Str("", DecimalDigits(code))))
                /\ reads[c] = <<>>

\* C6 witness: a call has returned after the export returned a Failure word.
C6_Witness ==
    \E c \in Calls :
        /\ Returned(c)
        /\ Decoded(c)
        /\ ReturnCode(c).tag = "Failure"
        /\ return_result[c].tag = "Err"

\* C7: a returned descriptor inside the page whose bytes are valid UTF-8 makes
\* the result the success value built from exactly the bytes of the guest page
\* at [offset, offset + length), which is the one descriptor read.
C7_DataIsBytesAtDescriptor ==
    \A c \in Calls :
        (/\ Decoded(c)
         /\ ReturnCode(c).tag = "Allocation"
         /\ InPage(ReturnCode(c))
         /\ Utf8ValidUpTo(BytesAt(c, ReturnCode(c).offset, ReturnCode(c).length))
              = ReturnCode(c).length) =>
            /\ return_result[c] =
                 Ok(JsonFromString(
                      Str("", BytesAt(c, ReturnCode(c).offset, ReturnCode(c).length))))
            /\ reads[c] = <<[offset |-> ReturnCode(c).offset,
                             length |-> ReturnCode(c).length]>>

\* C7 witness: a call has returned the two-byte text C3 A9 that the guest left
\* at offset 1 of its page.
C7_Witness ==
    \E c \in Calls :
        /\ Returned(c)
        /\ Decoded(c)
        /\ ReturnCode(c) = Allocation(1, 2)
        /\ memory[c][1] = 195
        /\ memory[c][2] = 169
        /\ return_result[c].tag = "Ok"

\* C8: a returned descriptor with offset + length beyond the page makes the
\* result the allocation error; no guest memory is read and there is no panic.
C8_OutOfBoundsDescriptor ==
    \A c \in Calls :
        (Decoded(c) /\ ReturnCode(c).tag = "Allocation" /\ ~InPage(ReturnCode(c))) =>
            /\ return_result[c] = Err(RibosomeFailed(Str("OutOfBounds", <<>>)))
            /\ reads[c] = <<>>
            /\ ~Panicked(c)

\* C8 witness: a call has returned after the export returned a descriptor that
\* starts inside the page and ends beyond it.
C8_Witness ==
    \E c \in Calls :
        /\ Returned(c)
        /\ Decoded(c)
        /\ ReturnCode(c) = Allocation(PageSize - 1, 2)
        /\ return_result[c].tag = "Err"

\* C9: a returned descriptor inside the page whose bytes are not valid UTF-8
\* makes the result an error value carrying the text of the UTF-8 error: never
\* a success value and never a panic.
C9_InvalidUtf8IsError ==
    \A c \in Calls :
        (/\ Decoded(c)
         /\ ReturnCode(c).tag = "Allocation"
         /\ InPage(ReturnCode(c))
         /\ Utf8ValidUpTo(BytesAt(c, ReturnCode(c).offset, ReturnCode(c).length))
              < ReturnCode(c).length) =>
            /\ return_result[c].tag = "Err"
            /\ return_result[c].value.kind = "RibosomeFailed"
            /\ return_result[c].value.msg.lit = "invalid utf-8 sequence from index "
            /\ ~Panicked(c)

\* C9 witness: a call has returned after the export returned a descriptor of a
\* lead byte that no continuation byte follows.
C9_Witness ==
    \E c \in Calls :
        /\ Returned(c)
        /\ Decoded(c)
        /\ ReturnCode(c) = Allocation(0, 2)
        /\ memory[c][0] = 195
        /\ memory[c][1] = 0
        /\ return_result[c].tag = "Err"

\* C10: a returned word that decodes to Success makes the result the success
\* carrying the JSON null value, and no guest memory is read.
C10_SuccessIsNull ==
    \A c \in Calls :
        (Decoded(c) /\ ReturnCode(c) = Success) =>
            /\ return_result[c] = Ok(JsonNull)
            /\ reads[c] = <<>>

\* C10 witness: a call has returned after the export returned the Success word.
C10_Witness ==
    \E c \in Calls :
        /\ Returned(c)
        /\ Decoded(c)
        /\ returned_encoding[c] = EncodeValue(Success)
        /\ return_result[c].tag = "Ok"

\* The state that belongs to one call.
PerCall(c) ==
    <<pc[c], wasm[c], fn_name[c], parameters[c], memory[c], top[c],
      encoded_allocation_of_input[c], returned_encoding[c], return_log_msg[c],
      return_result[c], reads[c], steps[c]>>

\* The summaries of the log lines of one call, in order.
RECURSIVE SummariesOf(_, _)
SummariesOf(c, lines) ==
    IF lines = <<>> THEN <<>>
    ELSE IF Head(lines).call = c
    THEN <<Head(lines).returned>> \o SummariesOf(c, Tail(lines))
    ELSE SummariesOf(c, Tail(lines))

\* A call that has ended has ended the way run_dna alone ends on its module,
\* its parameters and its guest's behaviour.
EndsAsAlone(c) ==
    LET alone == RunAlone(wasm[c], parameters[c], returned_encoding[c], memory[c])
    IN  /\ Returned(c) =>
              /\ alone.end = "done"
              /\ return_result[c] = alone.result
              /\ SummariesOf(c, log) = alone.logged
        /\ Panicked(c) => alone.end = "panicked"

\* A step of one call leaves the state of every other call as it is.
StepsAreLocal ==
    \A c \in Calls :
        pc'[c] # pc[c] => \A d \in Calls \ {c} : PerCall(d)' = PerCall(d)

\* C11: calls interleaved on the same context each end with the outcome they
\* would have had alone, and no step of a call changes the state of another
\* call.
C11_Isolation == [](\A c \in Calls : EndsAsAlone(c)) /\ [][StepsAreLocal]_vars

\* C11 witness: two calls with different inputs have both returned, each with
\* the result of its own input echoed by its guest, the second call's log line
\* before the first's.
C11_Witness ==
    /\ Calls = {1, 2}
    /\ Returned(1) /\ Returned(2)
    /\ parameters[1] = Some(<<0>>)
    /\ parameters[2] = Some(<<195, 169>>)
    /\ return_result[1] = Ok(JsonFromString(Str("", <<0>>)))
    /\ return_result[2] = Ok(JsonFromString(Str("", <<195, 169>>)))
    /\ Len(log) = 2
    /\ log[1].call = 2

EndOf(i) ==
    IF i = 0 THEN 0
    ELSE allocations[i].allocation.offset + allocations[i].allocation.length

\* C13: after any sequence of writes on a fresh page, every non-empty byte
\* sequence written successfully is read back unchanged through its
\* descriptor; each write starts where the previous one ended, so no two
\* allocations overlap, the bump offset is the end of the last one, and every
\* descriptor ends inside the page.
C13_AllocationRoundTrip ==
    \A c \in Calls :
        pc[c] = "write" =>
            /\ top[c] = EndOf(Len(allocations))
            /\ \A i \in 1 .. Len(allocations) :
                  LET a == allocations[i]
                  IN  /\ a.allocation.length = Len(a.data)
                      /\ a.allocation.length >= 1
                      /\ a.allocation.offset = EndOf(i - 1)
                      /\ a.allocation.offset + a.allocation.length <= PageSize
                      /\ \A k \in 1 .. Len(a.data) :
                            memory[c][a.allocation.offset + k - 1] = a.data[k]

\* C13 witness: two writes have succeeded, the second after the first.
C13_Witness ==
    \E c \in Calls :
        /\ pc[c] = "write"
        /\ Len(allocations) = 2
        /\ allocations[1].data = <<195>>
        /\ allocations[2].data = <<169, 0>>
        /\ allocations[2].allocation.offset = 1

\* The steps of a call, in the order of run_dna.
StepOrder ==
    <<"Load", "BindImports", "Instantiate", "StageInput", "Invoke", "DecodeResult",
      "Report">>

\* The call has ended, by returning or by a panic.
Ended(c) == Returned(c) \/ Panicked(c)

\* C14, as stated: the steps of a call are an initial part of Load, Bind
\* imports, Instantiate, Stage input, Invoke, Decode result, Report, each at
\* most once, and a call that ends before Report has ended at its first
\* failing step with that step's error returned to the caller.
C14_StepsInOrder ==
    \A c \in Calls :
        /\ Len(steps[c]) <= Len(StepOrder)
        /\ \A i \in 1 .. Len(steps[c]) : steps[c][i] = StepOrder[i]
        /\ (Ended(c) /\ LastStep(c) # "Report") =>
              /\ Returned(c)
              /\ return_result[c].tag = "Err"

\* C15: a non-empty input that the memory manager cannot place ends the call
\* at input staging with the RibosomeFailed error of the write returned to the
\* caller, and the export is never invoked.
C15_WriteFailureIsError ==
    \A c \in Calls :
        (Did(c, "StageInput") /\ Len(InputBytesOf(c)) > PageSize) =>
            /\ Returned(c)
            /\ return_result[c] = Err(RibosomeFailed(Str("OutOfBounds", <<>>)))
            /\ LastStep(c) = "StageInput"
            /\ ~Did(c, "Invoke")

\* C15 witness: a call with an input longer than the page has returned.
C15_Witness ==
    \E c \in Calls :
        /\ Returned(c)
        /\ Did(c, "StageInput")
        /\ Len(InputBytesOf(c)) = PageSize + 1
        /\ return_result[c].tag = "Err"

\* The names resolve_func is asked for, and those of the Zome API.
ImportNames == {"abort", "hc_debug", "hc_commit_entry", "hc_unknown", "memory"}

KnownNames == {"abort", "hc_debug", "hc_commit_entry"}

ExpectedSig(name) == IF name = "abort" THEN SigAbort ELSE SigStandard

HasMismatchedImport(w) ==
    \E imp \in w.imports : imp.name \in KnownNames /\ imp.sig # ExpectedSig(imp.name)

\* C16, as stated: resolve_func succeeds exactly for the known names, with the
\* index of the Zome API function and the signature fixed by the name (four
\* i64 and no result for abort, one i64 to one i64 otherwise); and a module
\* that declares a known import with another signature ends the call with an
\* error returned to the caller.
C16_ResolveFuncAndMismatch ==
    /\ \A name \in ImportNames :
          /\ ResolveFunc(name).tag = "Ok" <=> name \in KnownNames
          /\ name \in KnownNames =>
                /\ ResolveFunc(name).value.index = ZomeApiFunctionFromStr(name).value
                /\ ResolveFunc(name).value.sig = ExpectedSig(name)
    /\ \A c \in Calls :
          (wasm[c].valid /\ HasMismatchedImport(wasm[c]) /\ Did(c, "Instantiate")) =>
              /\ Returned(c)
              /\ return_result[c].tag = "Err"

\* A step of the call.
StepOf(c) ==
    \/ Load(c)
    \/ BindImports(c)
    \/ Instantiate(c)
    \/ StageInput(c)
    \/ Invoke(c)
    \/ DecodeResult(c)
    \/ Report(c)

\* C17, as stated: a call never waits, retries or blocks, and ends only by
\* returning a success value or an error to the caller: a call that has not
\* returned can take its next step, and it takes at most seven.
C17_EveryCallReturns ==
    \A c \in Calls :
        /\ Len(steps[c]) <= Len(StepOrder)
        /\ Returned(c) \/ ENABLED StepOf(c)

\* The page after the input was staged on a fresh page.
StagedPage(input) ==
    [i \in 0 .. (PageSize - 1) |-> IF i < Len(input) THEN input[i + 1] ELSE 0]

\* C18: when the export returns its argument word and leaves the page as it
\* was staged, the result is JSON null for absent or empty input, and the
\* success value built from exactly the input bytes for non-empty input that
\* is valid UTF-8.
C18_EchoReturnsInput ==
    \A c \in Calls :
        (/\ Decoded(c)
         /\ returned_encoding[c] = encoded_allocation_of_input[c]
         /\ memory[c] = StagedPage(InputBytesOf(c))) =>
            /\ Len(InputBytesOf(c)) = 0 => return_result[c] = Ok(JsonNull)
            /\ (/\ Len(InputBytesOf(c)) >= 1
                /\ Utf8ValidUpTo(InputBytesOf(c)) = Len(InputBytesOf(c))) =>
                  return_result[c] = Ok(JsonFromString(Str("", InputBytesOf(c))))

\* C18 witness: a call with the input C3 A9 has returned that text after its
\* guest returned the argument word and left the page as staged.
C18_Witness ==
    \E c \in Calls :
        /\ Returned(c)
        /\ Decoded(c)
        /\ parameters[c] = Some(<<195, 169>>)
        /\ returned_encoding[c] = encoded_allocation_of_input[c]
        /\ memory[c] = StagedPage(<<195, 169>>)
        /\ return_result[c].tag = "Ok"

\* The log lines of a call.
LogLinesOf(c) == {i \in 1 .. Len(log) : log[i].call = c}

\* C19: a call emits at most one log line, and only after the returned word
\* was decoded; the line names the function of the call, and its summary comes
\* from the decoded result: the error text when the result is a decode error,
\* the decoded text when it is a data success, the text of the return code
\* otherwise.
C19_LogLineFollowsDecode ==
    \A c \in Calls :
        /\ LinesOf(c) <= 1
        /\ \A i \in LogLinesOf(c) :
              /\ Decoded(c)
              /\ Returned(c)
              /\ log[i].fn = fn_name[c]
              /\ log[i].returned = return_log_msg[c]
              /\ (ReturnCode(c).tag = "Allocation" /\ return_result[c].tag = "Err") =>
                    log[i].returned = return_result[c].value.msg
              /\ (ReturnCode(c).tag = "Allocation" /\ return_result[c].tag = "Ok") =>
                    /\ log[i].returned = return_result[c].value.json
                    /\ log[i].returned =
                         Str("", BytesAt(c, ReturnCode(c).offset, ReturnCode(c).length))
              /\ ReturnCode(c).tag # "Allocation" =>
                    log[i].returned = ValueToString(ReturnCode(c))

\* C19 witness: a call has logged the text of the UTF-8 error it returned.
C19_Witness ==
    \E c \in Calls :
        /\ Returned(c)
        /\ LinesOf(c) = 1
        /\ ReturnCode(c) = Allocation(0, 1)
        /\ memory[c][0] = 169
        /\ return_result[c].tag = "Err"
        /\ \E i \in LogLinesOf(c) : log[i].returned = return_result[c].value.msg

=============================================================================
